---- MODULE Spec2Model ----
(***************************************************************************)
(* Model of the mpd package (client, sendCommand, Status, WatchStatus), of  *)
(* the readers of mpd.CurrentStatus and of the remote-control handler.     *)
(*                                                                         *)
(* Text is modelled as a sequence of one-character strings, so that        *)
(* TrimSpace, HasPrefix, SplitN, Atoi and ParseFloat are computed on the   *)
(* characters as the library computes them.                                *)
(***************************************************************************)
EXTENDS Integers, Sequences, FiniteSets, TLC

(***************************************************************************)
(* Bounds of the model.                                                    *)
(***************************************************************************)
MaxPolls == 3
NumReaders == 2
MaxLines == 2
NumTasks == 2
MaxEvents == 3
MaxOps == 5

\* The nil pointer, the nil error.
NULL == [nil |-> TRUE]

(***************************************************************************)
(* strings: the library functions the client calls.                        *)
(***************************************************************************)
WhiteSpace == {" ", "\t", "\n", "\r"}

RECURSIVE TrimLeft(_)
TrimLeft(s) ==
    IF s # <<>> /\ Head(s) \in WhiteSpace THEN TrimLeft(Tail(s)) ELSE s

RECURSIVE TrimRight(_)
TrimRight(s) ==
    IF s # <<>> /\ s[Len(s)] \in WhiteSpace
    THEN TrimRight(SubSeq(s, 1, Len(s) - 1))
    ELSE s

TrimSpace(s) == TrimRight(TrimLeft(s))

HasPrefix(s, p) == Len(s) >= Len(p) /\ SubSeq(s, 1, Len(p)) = p

\* strings.Index: the first position at which sep occurs in s, 0 if none.
Index(s, sep) ==
    LET hits == {i \in 1..(Len(s) - Len(sep) + 1) :
                    SubSeq(s, i, i + Len(sep) - 1) = sep}
    IN IF hits = {} THEN 0 ELSE CHOOSE i \in hits : \A j \in hits : i <= j

\* strings.SplitN(line, sep, 2): at most two parts, split at the first sep.
SplitN(line, sep) ==
    LET i == Index(line, sep)
    IN IF i = 0 THEN <<line>>
       ELSE <<SubSeq(line, 1, i - 1), SubSeq(line, i + Len(sep), Len(line))>>

(***************************************************************************)
(* strconv, on the inputs of this model: an optional sign, decimal digits  *)
(* and at most one point.  Exponents, "inf", "nan" and values beyond the   *)
(* range of int are not among the inputs.                                  *)
(***************************************************************************)
Digits == <<"0", "1", "2", "3", "4", "5", "6", "7", "8", "9">>
IsDigit(c) == \E i \in 1..10 : Digits[i] = c
DigitVal(c) == (CHOOSE i \in 1..10 : Digits[i] = c) - 1

RECURSIVE DecVal(_)
DecVal(ds) ==
    IF ds = <<>> THEN 0
    ELSE 10 * DecVal(SubSeq(ds, 1, Len(ds) - 1)) + DigitVal(ds[Len(ds)])

AllDigits(ds) == \A i \in 1..Len(ds) : IsDigit(ds[i])

Signed(s) == s # <<>> /\ Head(s) \in {"+", "-"}
Unsigned(s) == IF Signed(s) THEN Tail(s) ELSE s
Negative(s) == s # <<>> /\ Head(s) = "-"

\* strconv.Atoi: the value and whether err is nil; the value is 0 on a
\* syntax error.
Atoi(s) ==
    LET ds == Unsigned(s)
    IN IF ds # <<>> /\ AllDigits(ds)
       THEN [val |-> IF Negative(s) THEN 0 - DecVal(ds) ELSE DecVal(ds), ok |-> TRUE]
       ELSE [val |-> 0, ok |-> FALSE]

\* A float64 of the model: n / d with d a power of ten, in lowest such form.
RECURSIVE Pow10(_)
Pow10(k) == IF k = 0 THEN 1 ELSE 10 * Pow10(k - 1)

RECURSIVE Reduce(_)
Reduce(f) ==
    IF f.d > 1 /\ f.n % 10 = 0 THEN Reduce([n |-> f.n \div 10, d |-> f.d \div 10])
    ELSE f

FloatZero == [n |-> 0, d |-> 1]

\* strconv.ParseFloat(s, 64): the value and whether err is nil; the value is
\* 0 on a syntax error.
ParseFloat(s) ==
    LET body == Unsigned(s)
        p == Index(body, <<".">>)
        ip == IF p = 0 THEN body ELSE SubSeq(body, 1, p - 1)
        fp == IF p = 0 THEN <<>> ELSE SubSeq(body, p + 1, Len(body))
        mag == DecVal(ip \o fp)
    IN IF AllDigits(ip) /\ AllDigits(fp) /\ Len(ip) + Len(fp) > 0
       THEN [val |-> Reduce([n |-> IF Negative(s) THEN 0 - mag ELSE mag,
                             d |-> Pow10(Len(fp))]),
             ok |-> TRUE]
       ELSE [val |-> FloatZero, ok |-> FALSE]

\* The conversion int(f) of a float64: truncation toward zero.
FloatToInt(f) == IF f.n >= 0 THEN f.n \div f.d ELSE 0 - ((0 - f.n) \div f.d)

(***************************************************************************)
(* The tokens of the wire protocol and the keys the client looks up.       *)
(***************************************************************************)
Sep == <<":", " ">>
OkToken == <<"O", "K">>
AckPrefix == <<"A", "C", "K">>
Sentinel == <<"O", "K", " ", "M", "P", "D">>

kState == <<"s", "t", "a", "t", "e">>
kVolume == <<"v", "o", "l", "u", "m", "e">>
kRepeat == <<"r", "e", "p", "e", "a", "t">>
kRandom == <<"r", "a", "n", "d", "o", "m">>
kSingle == <<"s", "i", "n", "g", "l", "e">>
kConsume == <<"c", "o", "n", "s", "u", "m", "e">>
kPlaylistLength == <<"p", "l", "a", "y", "l", "i", "s", "t", "l", "e", "n", "g", "t", "h">>
kSong == <<"s", "o", "n", "g">>
kSongID == <<"s", "o", "n", "g", "i", "d">>
kNextSong == <<"n", "e", "x", "t", "s", "o", "n", "g">>
kNextSongID == <<"n", "e", "x", "t", "s", "o", "n", "g", "i", "d">>
kDuration == <<"d", "u", "r", "a", "t", "i", "o", "n">>
kElapsed == <<"e", "l", "a", "p", "s", "e", "d">>
kBitrate == <<"b", "i", "t", "r", "a", "t", "e">>
kError == <<"e", "r", "r", "o", "r">>
kArtist == <<"A", "r", "t", "i", "s", "t">>
kAlbum == <<"A", "l", "b", "u", "m">>
kTitle == <<"T", "i", "t", "l", "e">>

sPlay == <<"p", "l", "a", "y">>
sPause == <<"p", "a", "u", "s", "e">>
sStop == <<"s", "t", "o", "p">>
sOne == <<"1">>

(***************************************************************************)
(* parseKVP: a Go map is a function from the keys present to their values. *)
(***************************************************************************)
EmptyMap == [k \in {} |-> <<>>]

\* Put that leaves the value of a key already present as it is.
Put_keepsFirst(m, k, v) ==
    [x \in DOMAIN m \cup {k} |-> IF x \in DOMAIN m THEN m[x] ELSE v]

Put(m, k, v) == [x \in DOMAIN m \cup {k} |-> IF x = k THEN v ELSE m[x]]

\* m[k] of a Go map: the zero value "" when k is absent.
Get(m, k) == IF k \in DOMAIN m THEN m[k] ELSE <<>>

RECURSIVE parseKVPFrom(_, _, _)
parseKVPFrom(lines, i, m) ==
    IF i > Len(lines) THEN m
    ELSE LET parts == SplitN(lines[i], Sep)
         IN parseKVPFrom(lines, i + 1,
                IF Len(parts) = 2 THEN Put(m, parts[1], parts[2]) ELSE m)

parseKVP(lines) == parseKVPFrom(lines, 1, EmptyMap)

(***************************************************************************)
(* Status: the struct, its literal at the head of Client.Status and the    *)
(* field-by-field decoding of the status reply.                            *)
(***************************************************************************)
NewStatus ==
    [State |-> <<>>, Volume |-> -1, Repeat |-> FALSE, Random |-> FALSE,
     Single |-> FALSE, Consume |-> FALSE, PlaylistLength |-> 0, Song |-> 0,
     SongID |-> -1, NextSong |-> 0, NextSongID |-> -1, Duration |-> 0,
     Elapsed |-> FloatZero, Bitrate |-> 0, Error |-> <<>>,
     Artist |-> <<>>, Album |-> <<>>, Title |-> <<>>]

\* "if v, ok := kv[key]; ok { s.F, _ = strconv.Atoi(v) }"
AtoiField(kv, key, old) == IF key \in DOMAIN kv THEN Atoi(kv[key]).val ELSE old

\* "if v, ok := kv[key]; ok { s.F = (v == "1") }"
FlagField(kv, key, old) == IF key \in DOMAIN kv THEN kv[key] = sOne ELSE old

\* "if v, ok := kv[key]; ok { s.F = v }"
TextField(kv, key, old) == IF key \in DOMAIN kv THEN kv[key] ELSE old

decodeStatus(kv) ==
    LET s == NewStatus
    IN [State |-> TextField(kv, kState, s.State),
        Volume |-> AtoiField(kv, kVolume, s.Volume),
        Repeat |-> FlagField(kv, kRepeat, s.Repeat),
        Random |-> FlagField(kv, kRandom, s.Random),
        Single |-> FlagField(kv, kSingle, s.Single),
        Consume |-> FlagField(kv, kConsume, s.Consume),
        PlaylistLength |-> AtoiField(kv, kPlaylistLength, s.PlaylistLength),
        Song |-> AtoiField(kv, kSong, s.Song),
        SongID |-> AtoiField(kv, kSongID, s.SongID),
        NextSong |-> AtoiField(kv, kNextSong, s.NextSong),
        NextSongID |-> AtoiField(kv, kNextSongID, s.NextSongID),
        Duration |-> IF kDuration \in DOMAIN kv
                     THEN FloatToInt(ParseFloat(kv[kDuration]).val)
                     ELSE s.Duration,
        Elapsed |-> IF kElapsed \in DOMAIN kv
                    THEN ParseFloat(kv[kElapsed]).val
                    ELSE s.Elapsed,
        Bitrate |-> AtoiField(kv, kBitrate, s.Bitrate),
        Error |-> TextField(kv, kError, s.Error),
        Artist |-> s.Artist, Album |-> s.Album, Title |-> s.Title]

\* WantsSong that forgets the paused player.
WantsSong_playOnly(s) == s.State = sPlay

\* Whether Client.Status goes on to query the current song.
WantsSong(s) == s.State = sPlay \/ s.State = sPause

\* The else branch of the currentsong query: the three metadata fields.
WithSong(s, songKV) ==
    [s EXCEPT !.Artist = Get(songKV, kArtist),
              !.Album = Get(songKV, kAlbum),
              !.Title = Get(songKV, kTitle)]

(***************************************************************************)
(* The state.                                                              *)
(*   wpc            where the goroutine running WatchStatus is             *)
(*   conn           the Watcher's client.conn: "none", "open" or "closed"  *)
(*   stream         the lines the server has sent and the client's reader  *)
(*                  has not yet returned; each carries the number of the   *)
(*                  reply it belongs to and its place in that reply        *)
(*   broken         the peer is gone: after the lines of stream the        *)
(*                  reader returns an error                                *)
(*   callNo         the commands written on this connection so far         *)
(*   cmd, response  sendCommand's parameter and local                      *)
(*   consumed       the lines the running sendCommand has read             *)
(*   ret            what the last sendCommand returned                     *)
(*   lines, kv, wstatus   the locals lines, kv and s of Client.Status (and  *)
(*                  status of WatchStatus)                                 *)
(*   pollNo         the ticks received so far                              *)
(*   CurrentStatus, statusMutex   the package variables                    *)
(*   lastGood       the Status the last successful Client.Status returned  *)
(*   first, waited  no connection was attempted yet; time.Sleep returned   *)
(*                  since the last attempt                                 *)
(*   seen           per reader, the poll of the Status it last read        *)
(*   dlines, dout   input and result of a stand-alone decode               *)
(*   wsocks         the sockets WatchStatus has dialled and not closed     *)
(*   dkv, dtag, dlist   the map of a stand-alone parseKVP; the tag and the  *)
(*                  result of a stand-alone List                           *)
(*   mpdClient      the package variable of the remote-control handler     *)
(*   hstream, hcallNo   the lines on their way on the handler's connection  *)
(*                  and the commands written to it                         *)
(*   hevents        the button events handed to HandleSimpleRemote so far  *)
(*   hpc, hptr, hcmd, hresp, hmine, hcons, hret   per task running          *)
(*                  HandleSimpleRemote: where it is, the pointer it loaded *)
(*                  from CurrentStatus, its command, sendCommand's local,   *)
(*                  the number of its command on the connection, the lines *)
(*                  it has read and what sendCommand returned to it        *)
(*   uconn, ulog    the conn field of a caller's own Client and the        *)
(*                  outcomes of the caller's calls so far                  *)
(***************************************************************************)
VARIABLES wpc, conn, stream, broken, callNo, cmd, response, consumed, ret,
          lines, kv, wstatus, pollNo, CurrentStatus, statusMutex, lastGood,
          first, waited, seen, dlines, dout, wsocks, dkv, dtag, dlist,
          mpdClient, hstream, hcallNo, hevents, hpc, hptr, hcmd, hresp,
          hmine, hcons, hret, uconn, ulog

vars == <<wpc, conn, stream, broken, callNo, cmd, response, consumed, ret,
          lines, kv, wstatus, pollNo, CurrentStatus, statusMutex, lastGood,
          first, waited, seen, dlines, dout, wsocks, dkv, dtag, dlist,
          mpdClient, hstream, hcallNo, hevents, hpc, hptr, hcmd, hresp,
          hmine, hcons, hret, uconn, ulog>>

connVars == <<conn, stream, broken, callNo, wsocks>>
handlerVars == <<mpdClient, hstream, hcallNo, hevents, hpc, hptr, hcmd, hresp,
                 hmine, hcons, hret>>
closeVars == <<uconn, ulog>>
otherVars == <<handlerVars, closeVars>>
callVars == <<cmd, response, consumed, ret>>
localVars == <<lines, kv, wstatus>>
slotVars == <<CurrentStatus, statusMutex>>
retryVars == <<first, waited>>
decodeVars == <<dlines, dout, dkv, dtag, dlist>>

Readers == 1..NumReaders

(***************************************************************************)
(* The server: what it may send on connect and in reply to a command.      *)
(***************************************************************************)
lGreeting == <<"O", "K", " ", "M", "P", "D", " ", "0", ".", "2", "3", "\n">>
lBadGreeting == <<"N", "O", "\n">>
lStatePlay == <<"s", "t", "a", "t", "e", ":", " ", "p", "l", "a", "y", "\n">>
lStatePause == <<"s", "t", "a", "t", "e", ":", " ", "p", "a", "u", "s", "e", "\n">>
lStateStop == <<"s", "t", "a", "t", "e", ":", " ", "s", "t", "o", "p", "\n">>
lVolume == <<"v", "o", "l", "u", "m", "e", ":", " ", "5", "0", "\n">>
lArtist == <<"A", "r", "t", "i", "s", "t", ":", " ", "X", "\n">>
lTitle == <<"T", "i", "t", "l", "e", ":", " ", "Y", " ", "\n">>
lOK == <<"O", "K", "\n">>
lAckStatus == <<"A", "C", "K", " ", "[", "5", "@", "0", "]", " ", "e", "\n">>
lAckSong == <<"A", "C", "K", " ", "[", "5", "0", "@", "0", "]", " ", "n", "\n">>

Greetings == {lGreeting, lBadGreeting}

StatusReplies ==
    {<<lStatePlay, lVolume, lOK>>, <<lStatePause, lOK>>, <<lStateStop, lOK>>,
     <<lVolume, lOK>>, <<lStatePlay, lAckStatus>>}

SongReplies == {<<lArtist, lTitle, lOK>>, <<lAckSong>>}

Replies(command) == IF command = "status" THEN StatusReplies ELSE SongReplies

\* The k-th reply on a connection, each line marked with its place in it.
Tagged(reply, k) ==
    [i \in 1..Len(reply) |->
        [text |-> reply[i], reply |-> k, idx |-> i, last |-> i = Len(reply)]]

Prefixes(s) == {SubSeq(s, 1, n) : n \in 0..Len(s)}

(***************************************************************************)
(* sendCommand.                                                            *)
(***************************************************************************)
IoCause == "io"

SendError(command) == [kind |-> "send", command |-> command, detail |-> IoCause]
ReadError(command) == [kind |-> "read", command |-> command, detail |-> IoCause]
AckError(command, line) == [kind |-> "failed", command |-> command, detail |-> line]

\* ReadLine that takes any line for the end of the reply.
ReadLine_firstLine(command, resp, raw) ==
    LET line == TrimSpace(raw)
    IN IF line = OkToken
       THEN [done |-> TRUE, lines |-> resp, err |-> NULL]
       ELSE IF HasPrefix(line, AckPrefix)
       THEN [done |-> TRUE, lines |-> <<>>, err |-> AckError(command, line)]
       ELSE [done |-> TRUE, lines |-> Append(resp, line), err |-> NULL]

\* ReadLine that returns the lines collected so far along with the error.
ReadLine_keepsLines(command, resp, raw) ==
    LET line == TrimSpace(raw)
    IN IF line = OkToken
       THEN [done |-> TRUE, lines |-> resp, err |-> NULL]
       ELSE IF HasPrefix(line, AckPrefix)
       THEN [done |-> TRUE, lines |-> resp, err |-> AckError(command, line)]
       ELSE [done |-> FALSE, lines |-> Append(resp, line), err |-> NULL]

\* ReadLine that reports the line as ReadString returned it.
ReadLine_rawLine(command, resp, raw) ==
    LET line == TrimSpace(raw)
    IN IF line = OkToken
       THEN [done |-> TRUE, lines |-> resp, err |-> NULL]
       ELSE IF HasPrefix(line, AckPrefix)
       THEN [done |-> TRUE, lines |-> <<>>, err |-> AckError(command, raw)]
       ELSE [done |-> FALSE, lines |-> Append(resp, line), err |-> NULL]

\* One turn of the read loop on the line raw that ReadString returned.
ReadLine(command, resp, raw) ==
    LET line == TrimSpace(raw)
    IN IF line = OkToken
       THEN [done |-> TRUE, lines |-> resp, err |-> NULL]
       ELSE IF HasPrefix(line, AckPrefix)
       THEN [done |-> TRUE, lines |-> <<>>, err |-> AckError(command, line)]
       ELSE [done |-> FALSE, lines |-> Append(resp, line), err |-> NULL]

\* The number of the next command on the connection.  Each tick writes at
\* most two commands, so the count stops at CallCap only where the tick
\* counter has stopped at MaxPolls.
CallCap == 2 * MaxPolls
NextCall(k) == IF k < CallCap THEN k + 1 ELSE k

Stage(p) == IF wpc \in {"status_w", "status_r"} THEN "status_" \o p ELSE "song_" \o p

\* fmt.Fprintln(c.conn, command)
WWrite ==
    /\ wpc \in {"status_w", "song_w"}
    /\ conn = "open"
    /\ \/ /\ ~broken
          /\ \E rep \in Replies(cmd) :
                stream' = stream \o Tagged(rep, NextCall(callNo))
          /\ callNo' = NextCall(callNo)
          /\ wpc' = Stage("r")
          /\ response' = <<>> /\ consumed' = <<>>
          /\ UNCHANGED ret
       \/ /\ broken
          /\ ret' = [lines |-> <<>>, err |-> SendError(cmd)]
          /\ wpc' = Stage("ret")
          /\ UNCHANGED <<stream, callNo, response, consumed>>
       \/ /\ broken
          /\ callNo' = NextCall(callNo)
          /\ wpc' = Stage("r")
          /\ response' = <<>> /\ consumed' = <<>>
          /\ UNCHANGED <<stream, ret>>
    /\ UNCHANGED <<conn, broken, wsocks, cmd, localVars, pollNo, slotVars,
                   lastGood, retryVars, seen, decodeVars, otherVars>>

\* c.reader.ReadString('\n') and the rest of the loop body
WRead ==
    /\ wpc \in {"status_r", "song_r"}
    /\ \/ /\ stream # <<>>
          /\ LET f == ReadLine(cmd, response, Head(stream).text)
             IN /\ consumed' = Append(consumed, Head(stream))
                /\ stream' = Tail(stream)
                /\ IF f.done
                   THEN /\ ret' = [lines |-> f.lines, err |-> f.err]
                        /\ response' = <<>>
                        /\ wpc' = Stage("ret")
                   ELSE /\ response' = f.lines
                        /\ UNCHANGED <<ret, wpc>>
       \/ /\ stream = <<>> /\ broken
          /\ ret' = [lines |-> <<>>, err |-> ReadError(cmd)]
          /\ response' = <<>>
          /\ wpc' = Stage("ret")
          /\ UNCHANGED <<stream, consumed>>
    /\ UNCHANGED <<conn, broken, callNo, wsocks, cmd, localVars, pollNo, slotVars,
                   lastGood, retryVars, seen, decodeVars, otherVars>>

(***************************************************************************)
(* NewClient, as WatchStatus calls it.                                     *)
(***************************************************************************)
NoRet == [lines |-> <<>>, err |-> NULL]

\* WDial that starts every connection with an empty slot.
WDial_clears ==
    /\ wpc = "connect"
    /\ \/ /\ wpc' = "sleep"
          /\ UNCHANGED connVars
       \/ /\ \E g \in Greetings : stream' = Tagged(<<g>>, 0)
          /\ conn' = "open"
          /\ broken' = FALSE
          /\ callNo' = 0
          /\ wsocks' = wsocks + 1
          /\ wpc' = "greet"
    /\ first' = FALSE
    /\ waited' = FALSE
    /\ CurrentStatus' = NULL
    /\ UNCHANGED <<callVars, localVars, pollNo, statusMutex, lastGood, seen,
                   decodeVars, otherVars>>

\* net.Dial, and the err != nil branch of WatchStatus when it fails
WDial ==
    /\ wpc = "connect"
    /\ \/ /\ wpc' = "sleep"
          /\ UNCHANGED connVars
       \/ /\ \E g \in Greetings : stream' = Tagged(<<g>>, 0)
          /\ conn' = "open"
          /\ broken' = FALSE
          /\ callNo' = 0
          /\ wsocks' = wsocks + 1
          /\ wpc' = "greet"
    /\ first' = FALSE
    /\ waited' = FALSE
    /\ UNCHANGED <<callVars, localVars, pollNo, slotVars, lastGood, seen,
                   decodeVars, otherVars>>

\* WGreet that returns on an unexpected welcome line without closing conn.
WGreet_leaks ==
    /\ wpc = "greet"
    /\ \/ /\ stream # <<>>
          /\ IF HasPrefix(Head(stream).text, Sentinel)
             THEN /\ wpc' = "tick"
                  /\ stream' = Tail(stream)
                  /\ UNCHANGED <<conn, broken, wsocks>>
             ELSE /\ wpc' = "sleep"
                  /\ UNCHANGED <<conn, stream, broken, wsocks>>
       \/ /\ stream = <<>> /\ broken
          /\ wpc' = "sleep"
          /\ conn' = "closed"
          /\ wsocks' = wsocks - 1
          /\ broken' = FALSE
          /\ UNCHANGED stream
    /\ UNCHANGED <<callNo, callVars, localVars, pollNo, slotVars, lastGood,
                   retryVars, seen, decodeVars, otherVars>>

\* The read of the welcome line and the check of its prefix; a failure
\* closes conn and WatchStatus goes to its Sleep.
WGreet ==
    /\ wpc = "greet"
    /\ \/ /\ stream # <<>>
          /\ IF HasPrefix(Head(stream).text, Sentinel)
             THEN /\ wpc' = "tick"
                  /\ stream' = Tail(stream)
                  /\ UNCHANGED <<conn, broken, wsocks>>
             ELSE /\ wpc' = "sleep"
                  /\ conn' = "closed"
                  /\ wsocks' = wsocks - 1
                  /\ stream' = <<>>
                  /\ broken' = FALSE
       \/ /\ stream = <<>> /\ broken
          /\ wpc' = "sleep"
          /\ conn' = "closed"
          /\ wsocks' = wsocks - 1
          /\ broken' = FALSE
          /\ UNCHANGED stream
    /\ UNCHANGED <<callNo, callVars, localVars, pollNo, slotVars, lastGood,
                   retryVars, seen, decodeVars, otherVars>>

\* time.Sleep(interval); continue
WSleep ==
    /\ wpc = "sleep"
    /\ wpc' = "connect"
    /\ waited' = TRUE
    /\ UNCHANGED <<connVars, callVars, localVars, pollNo, slotVars,
                   lastGood, first, seen, decodeVars, otherVars>>

(***************************************************************************)
(* The polling loop of WatchStatus and Client.Status.                      *)
(***************************************************************************)
\* A tick arrives on ticker.C and Client.Status starts; n is its number.
WTickTo(n) ==
    /\ wpc = "tick"
    /\ pollNo' = n
    /\ cmd' = "status"
    /\ wpc' = "status_w"
    /\ UNCHANGED <<connVars, response, consumed, ret, localVars, slotVars,
                   lastGood, retryVars, seen, decodeVars, otherVars>>

WTick == pollNo < MaxPolls /\ WTickTo(pollNo + 1)

\* WStatusFail with a slot that is cleared when the connection is given up.
WStatusFail_clears ==
    /\ wpc = "status_ret"
    /\ ret.err # NULL
    /\ conn' = "closed"
    /\ wsocks' = wsocks - 1
    /\ stream' = <<>>
    /\ broken' = FALSE
    /\ wpc' = "connect"
    /\ ret' = NoRet
    /\ consumed' = <<>>
    /\ CurrentStatus' = NULL
    /\ UNCHANGED <<callNo, cmd, response, localVars, pollNo, statusMutex,
                   lastGood, retryVars, seen, decodeVars, otherVars>>

\* WStatusFail with a return in place of the break.
WStatusFail_returns ==
    /\ wpc = "status_ret"
    /\ ret.err # NULL
    /\ conn' = "closed"
    /\ wsocks' = wsocks - 1
    /\ stream' = <<>>
    /\ broken' = FALSE
    /\ wpc' = "exit"
    /\ ret' = NoRet
    /\ consumed' = <<>>
    /\ UNCHANGED <<callNo, cmd, response, localVars, pollNo, slotVars,
                   lastGood, retryVars, seen, decodeVars, otherVars>>

\* WStatusFail that breaks to the outer loop without closing the client.
WStatusFail_leaks ==
    /\ wpc = "status_ret"
    /\ ret.err # NULL
    /\ UNCHANGED <<conn, wsocks, stream, broken>>
    /\ wpc' = "connect"
    /\ ret' = NoRet
    /\ consumed' = <<>>
    /\ UNCHANGED <<callNo, cmd, response, localVars, pollNo, slotVars,
                   lastGood, retryVars, seen, decodeVars, otherVars>>

\* sendCommand("status") failed: Status returns the error, WatchStatus
\* closes the client, stops the ticker and breaks to the outer loop.
WStatusFail ==
    /\ wpc = "status_ret"
    /\ ret.err # NULL
    /\ conn' = "closed"
    /\ wsocks' = wsocks - 1
    /\ stream' = <<>>
    /\ broken' = FALSE
    /\ wpc' = "connect"
    /\ ret' = NoRet
    /\ consumed' = <<>>
    /\ UNCHANGED <<callNo, cmd, response, localVars, pollNo, slotVars,
                   lastGood, retryVars, seen, decodeVars, otherVars>>

\* WStatusOk that goes on to decode whatever sendCommand returned.
WStatusOk_ignoresErr ==
    /\ wpc = "status_ret"
    /\ lines' = ret.lines
    /\ kv' = parseKVP(ret.lines)
    /\ wpc' = "parsed"
    /\ ret' = NoRet
    /\ consumed' = <<>>
    /\ UNCHANGED <<connVars, cmd, response, wstatus, pollNo, slotVars, lastGood,
                   retryVars, seen, decodeVars, otherVars>>

\* sendCommand("status") succeeded: kv := parseKVP(lines).
WStatusOk ==
    /\ wpc = "status_ret"
    /\ ret.err = NULL
    /\ lines' = ret.lines
    /\ kv' = parseKVP(ret.lines)
    /\ wpc' = "parsed"
    /\ ret' = NoRet
    /\ consumed' = <<>>
    /\ UNCHANGED <<connVars, cmd, response, wstatus, pollNo, slotVars, lastGood,
                   retryVars, seen, decodeVars, otherVars>>

\* The Status literal and the decoding of the fields from kv; the place of
\* the new Status in the order of polls is the number of the tick.
WDecode ==
    /\ wpc = "parsed"
    /\ wstatus' = [poll |-> pollNo, s |-> decodeStatus(kv)]
    /\ kv' = EmptyMap
    /\ wpc' = "decoded"
    /\ UNCHANGED <<connVars, callVars, lines, pollNo, slotVars, lastGood,
                   retryVars, seen, decodeVars, otherVars>>

\* "if s.State == "play" || s.State == "pause"": query the song, or return s.
WSongCheck ==
    /\ wpc = "decoded"
    /\ \/ /\ WantsSong(wstatus.s)
          /\ cmd' = "currentsong"
          /\ wpc' = "song_w"
          /\ UNCHANGED <<lines, lastGood>>
       \/ /\ ~WantsSong(wstatus.s)
          /\ wpc' = "lock"
          /\ lines' = <<>>
          /\ lastGood' = wstatus
          /\ UNCHANGED cmd
    /\ UNCHANGED <<connVars, response, consumed, ret, kv, wstatus, pollNo,
                   slotVars, retryVars, seen, decodeVars, otherVars>>

\* WSongRet that hands the error of the song query on to WatchStatus.
WSongRet_propagates ==
    /\ wpc = "song_ret"
    /\ IF ret.err # NULL
       THEN /\ conn' = "closed"
            /\ wsocks' = wsocks - 1
            /\ stream' = <<>>
            /\ broken' = FALSE
            /\ wpc' = "connect"
            /\ UNCHANGED <<wstatus, lastGood>>
       ELSE /\ wstatus' = [wstatus EXCEPT !.s = WithSong(@, parseKVP(ret.lines))]
            /\ lastGood' = wstatus'
            /\ wpc' = "lock"
            /\ UNCHANGED <<conn, stream, broken, wsocks>>
    /\ lines' = <<>>
    /\ ret' = NoRet
    /\ consumed' = <<>>
    /\ UNCHANGED <<callNo, cmd, response, kv, pollNo, slotVars, retryVars,
                   seen, decodeVars, otherVars>>

\* sendCommand("currentsong") returned: log the error or fill in the
\* metadata; Status returns s either way.
WSongRet ==
    /\ wpc = "song_ret"
    /\ LET st == IF ret.err # NULL THEN wstatus
                 ELSE [wstatus EXCEPT !.s = WithSong(@, parseKVP(ret.lines))]
       IN /\ wstatus' = st
          /\ lastGood' = st
    /\ wpc' = "lock"
    /\ lines' = <<>>
    /\ ret' = NoRet
    /\ consumed' = <<>>
    /\ UNCHANGED <<connVars, cmd, response, kv, pollNo, slotVars, retryVars,
                   seen, decodeVars, otherVars>>

\* statusMutex.Lock()
WLock ==
    /\ wpc = "lock"
    /\ statusMutex = "free"
    /\ statusMutex' = "watcher"
    /\ wpc' = "store"
    /\ UNCHANGED <<connVars, callVars, localVars, pollNo, CurrentStatus,
                   lastGood, retryVars, seen, decodeVars, otherVars>>

\* CurrentStatus = status
WStore ==
    /\ wpc = "store"
    /\ CurrentStatus' = wstatus
    /\ wpc' = "unlock"
    /\ UNCHANGED <<connVars, callVars, localVars, pollNo, statusMutex,
                   lastGood, retryVars, seen, decodeVars, otherVars>>

\* WUnlock that goes back to the ticker with statusMutex still held.
WUnlock_holds ==
    /\ wpc = "unlock"
    /\ wpc' = "tick"
    /\ wstatus' = NULL
    /\ UNCHANGED <<connVars, callVars, lines, kv, pollNo, slotVars,
                   lastGood, retryVars, seen, decodeVars, otherVars>>

\* statusMutex.Unlock(), then back to the range over ticker.C
WUnlock ==
    /\ wpc = "unlock"
    /\ statusMutex' = "free"
    /\ wpc' = "tick"
    /\ wstatus' = NULL
    /\ UNCHANGED <<connVars, callVars, lines, kv, pollNo, CurrentStatus,
                   lastGood, retryVars, seen, decodeVars, otherVars>>

(***************************************************************************)
(* The environment: the peer goes away, and with it the lines it had sent  *)
(* that were still on their way.                                           *)
(***************************************************************************)
Break ==
    /\ conn = "open"
    /\ ~broken
    /\ broken' = TRUE
    /\ stream' \in Prefixes(stream)
    /\ UNCHANGED <<wpc, conn, callNo, wsocks, callVars, localVars, pollNo,
                   slotVars, lastGood, retryVars, seen, decodeVars, otherVars>>

(***************************************************************************)
(* A reader of mpd.CurrentStatus: it loads the pointer.                    *)
(***************************************************************************)
Recency(p) == IF p = NULL THEN 0 ELSE p.poll

Read(r) ==
    /\ seen' = [seen EXCEPT ![r] = Recency(CurrentStatus)]
    /\ UNCHANGED <<wpc, connVars, callVars, localVars, pollNo, slotVars,
                   lastGood, retryVars, decodeVars, otherVars>>

(***************************************************************************)
(* A decode on its own: parseKVP and the field decoding of Client.Status   *)
(* applied to the lines dlines.                                            *)
(***************************************************************************)
Decode ==
    /\ dout = NULL
    /\ dkv' = parseKVP(dlines)
    /\ dout' = decodeStatus(parseKVP(dlines))
    /\ UNCHANGED <<wpc, connVars, callVars, localVars, pollNo, slotVars,
                   lastGood, retryVars, seen, dlines, dtag, dlist, otherVars>>

(***************************************************************************)
(* Client.List: the values of the lines of a reply that carry the tag.     *)
(***************************************************************************)
UpperCase ==
    <<"A", "B", "C", "D", "E", "F", "G", "H", "I", "J", "K", "L", "M",
      "N", "O", "P", "Q", "R", "S", "T", "U", "V", "W", "X", "Y", "Z">>
LowerCase ==
    <<"a", "b", "c", "d", "e", "f", "g", "h", "i", "j", "k", "l", "m",
      "n", "o", "p", "q", "r", "s", "t", "u", "v", "w", "x", "y", "z">>

LowerOf(c) ==
    IF \E i \in DOMAIN UpperCase : UpperCase[i] = c
    THEN LowerCase[CHOOSE i \in DOMAIN UpperCase : UpperCase[i] = c]
    ELSE c

\* strings.ToLower
ToLower(s) == [i \in 1..Len(s) |-> LowerOf(s[i])]

\* The loop over the lines of the reply: prefix is tag + ": " as the caller
\* wrote the tag, and it is looked for in the line in lower case.
ListValues(ls, tag) ==
    LET prefix == tag \o Sep
        values[i \in 0..Len(ls)] ==
            IF i = 0 THEN <<>>
            ELSE IF HasPrefix(ToLower(ls[i]), prefix)
                 THEN Append(values[i - 1],
                             SubSeq(ls[i], Len(prefix) + 1, Len(ls[i])))
                 ELSE values[i - 1]
    IN values[Len(ls)]

DecodeList ==
    /\ dlist = NULL
    /\ dlist' = [values |-> ListValues(dlines, dtag)]
    /\ UNCHANGED <<wpc, connVars, callVars, localVars, pollNo, slotVars,
                   lastGood, retryVars, seen, dlines, dout, dkv, dtag,
                   otherVars>>

(***************************************************************************)
(* The remote-control handler: HandleSimpleRemote run by the tasks Tasks   *)
(* on the one client of getMpdClient.  The peer of that client answers     *)
(* every command with one terminator line.                                 *)
(***************************************************************************)
Tasks == 1..NumTasks

watchVars == <<wpc, connVars, callVars, localVars, pollNo, slotVars, lastGood,
               retryVars, seen>>

lAckCtl == <<"A", "C", "K", " ", "[", "2", "@", "0", "]", " ", "a", "\n">>

CtlReplies == {<<lOK>>, <<lAckCtl>>}

Buttons == {"PlayPause", "NextTrack", "PreviousTrack", "None"}

\* Client.Pause: the command for the argument p.
PauseCmd(p) == IF p THEN "pause 1" ELSE "pause 0"

\* Where HandleSimpleRemote goes once it has its client.
Entry(ev) ==
    IF ev = "PlayPause" THEN "load"
    ELSE IF ev \in {"NextTrack", "PreviousTrack"} THEN "write"
    ELSE "idle"

EntryCmd(ev, old) ==
    IF ev = "NextTrack" THEN "next"
    ELSE IF ev = "PreviousTrack" THEN "previous"
    ELSE old

\* A ContextButtonStatus arrives and getMpdClient runs, all of it under
\* mpdMutex: the first call dials and checks the welcome line, and a
\* failure of either ends in log.Panic.
HEvent(t, ev) ==
    /\ hpc[t] = "idle"
    /\ hevents < MaxEvents
    /\ hevents' = hevents + 1
    /\ \/ /\ mpdClient = "nil"
          /\ hpc' = [hpc EXCEPT ![t] = "panic_client"]
          /\ UNCHANGED <<mpdClient, hcmd>>
       \/ /\ mpdClient = "nil"
          /\ \E g \in Greetings :
                IF HasPrefix(g, Sentinel)
                THEN /\ mpdClient' = "set"
                     /\ hpc' = [hpc EXCEPT ![t] = Entry(ev)]
                     /\ hcmd' = [hcmd EXCEPT ![t] = EntryCmd(ev, @)]
                ELSE /\ hpc' = [hpc EXCEPT ![t] = "panic_client"]
                     /\ UNCHANGED <<mpdClient, hcmd>>
       \/ /\ mpdClient = "set"
          /\ hpc' = [hpc EXCEPT ![t] = Entry(ev)]
          /\ hcmd' = [hcmd EXCEPT ![t] = EntryCmd(ev, @)]
          /\ UNCHANGED mpdClient
    /\ UNCHANGED <<hstream, hcallNo, hptr, hresp, hmine, hcons, hret,
                   watchVars, decodeVars, closeVars>>

\* The load of the pointer mpd.CurrentStatus; statusMutex is not taken.
HLoad(t) ==
    /\ hpc[t] = "load"
    /\ hptr' = [hptr EXCEPT ![t] = CurrentStatus]
    /\ hpc' = [hpc EXCEPT ![t] = "deref"]
    /\ UNCHANGED <<mpdClient, hstream, hcallNo, hevents, hcmd, hresp, hmine,
                   hcons, hret, watchVars, decodeVars, closeVars>>

\* The read of the field State through the pointer, a nil pointer
\* dereference when the pointer is nil, and the argument of Client.Pause.
HDeref(t) ==
    /\ hpc[t] = "deref"
    /\ IF hptr[t] = NULL
       THEN /\ hpc' = [hpc EXCEPT ![t] = "panic_nil"]
            /\ UNCHANGED hcmd
       ELSE /\ hcmd' = [hcmd EXCEPT ![t] = PauseCmd(hptr[t].s.State = sPlay)]
            /\ hpc' = [hpc EXCEPT ![t] = "write"]
    /\ hptr' = [hptr EXCEPT ![t] = NULL]
    /\ UNCHANGED <<mpdClient, hstream, hcallNo, hevents, hresp, hmine, hcons,
                   hret, watchVars, decodeVars, closeVars>>

\* fmt.Fprintln(c.conn, command) on the shared client: one Write of the
\* whole line, which the peer answers.
HWrite(t) ==
    /\ hpc[t] = "write"
    /\ \E rep \in CtlReplies :
          hstream' = hstream \o Tagged(rep, hcallNo + 1)
    /\ hcallNo' = hcallNo + 1
    /\ hmine' = [hmine EXCEPT ![t] = hcallNo + 1]
    /\ hcons' = [hcons EXCEPT ![t] = <<>>]
    /\ hresp' = [hresp EXCEPT ![t] = <<>>]
    /\ hpc' = [hpc EXCEPT ![t] = "read"]
    /\ UNCHANGED <<mpdClient, hevents, hptr, hcmd, hret, watchVars,
                   decodeVars, closeVars>>

\* c.reader.ReadString('\n') on the shared client and the rest of the loop
\* body; the handler drops the error of the call and returns nil.
HRead(t) ==
    /\ hpc[t] = "read"
    /\ hstream # <<>>
    /\ LET f == ReadLine(hcmd[t], hresp[t], Head(hstream).text)
       IN /\ hcons' = [hcons EXCEPT ![t] = Append(@, Head(hstream))]
          /\ hstream' = Tail(hstream)
          /\ IF f.done
             THEN /\ hret' = [hret EXCEPT ![t] = [lines |-> f.lines, err |-> f.err]]
                  /\ hresp' = [hresp EXCEPT ![t] = <<>>]
                  /\ hpc' = [hpc EXCEPT ![t] = "idle"]
             ELSE /\ hresp' = [hresp EXCEPT ![t] = f.lines]
                  /\ UNCHANGED <<hret, hpc>>
    /\ UNCHANGED <<mpdClient, hcallNo, hevents, hptr, hcmd, hmine, watchVars,
                   decodeVars, closeVars>>

Handler(t) ==
    \/ \E ev \in Buttons : HEvent(t, ev)
    \/ HLoad(t)
    \/ HDeref(t)
    \/ HWrite(t)
    \/ HRead(t)

(***************************************************************************)
(* A caller with a Client of its own: NewClient and Client.Close, in any   *)
(* order.  uconn is "nil" in the zero Client, "open" while conn is an open *)
(* socket and "closed" once that socket was closed.                        *)
(***************************************************************************)
\* What net.Conn.Close returns for a socket that is closed already.
ClosedError == [kind |-> "close", command |-> "", detail |-> "closed"]

\* Client.Close on a Client whose conn is c: the conn afterwards, and the
\* error returned.
Close(c) ==
    IF c # "nil"
    THEN [conn |-> "closed", err |-> IF c = "open" THEN NULL ELSE ClosedError]
    ELSE [conn |-> c, err |-> NULL]

UNew ==
    /\ Len(ulog) < MaxOps
    /\ uconn # "open"
    /\ \/ /\ uconn' = "open"
          /\ ulog' = Append(ulog, [op |-> "new", conn |-> "open", err |-> NULL])
       \/ /\ ulog' = Append(ulog, [op |-> "new", conn |-> uconn,
                                   err |-> [kind |-> "connect", command |-> "",
                                            detail |-> IoCause]])
          /\ UNCHANGED uconn
    /\ UNCHANGED <<watchVars, decodeVars, handlerVars>>

UClose ==
    /\ Len(ulog) < MaxOps
    /\ LET r == Close(uconn)
       IN /\ uconn' = r.conn
          /\ ulog' = Append(ulog, [op |-> "close", conn |-> r.conn, err |-> r.err])
    /\ UNCHANGED <<watchVars, decodeVars, handlerVars>>

(***************************************************************************)
(* The specifications.                                                     *)
(***************************************************************************)
ProgInit ==
    /\ wpc = "connect"
    /\ conn = "none"
    /\ stream = <<>>
    /\ broken = FALSE
    /\ callNo = 0
    /\ wsocks = 0
    /\ cmd = ""
    /\ response = <<>>
    /\ consumed = <<>>
    /\ ret = NoRet
    /\ lines = <<>>
    /\ kv = EmptyMap
    /\ wstatus = NULL
    /\ pollNo = 0
    /\ CurrentStatus = NULL
    /\ statusMutex = "free"
    /\ lastGood = NULL
    /\ first = TRUE
    /\ waited = FALSE
    /\ seen = [r \in Readers |-> 0]

HandlerIdle ==
    /\ mpdClient = "nil"
    /\ hstream = <<>>
    /\ hcallNo = 0
    /\ hevents = 0
    /\ hpc = [t \in Tasks |-> "idle"]
    /\ hptr = [t \in Tasks |-> NULL]
    /\ hcmd = [t \in Tasks |-> ""]
    /\ hresp = [t \in Tasks |-> <<>>]
    /\ hmine = [t \in Tasks |-> 0]
    /\ hcons = [t \in Tasks |-> <<>>]
    /\ hret = [t \in Tasks |-> NoRet]

CloseIdle ==
    /\ uconn = "nil"
    /\ ulog = <<>>

NoDecode ==
    /\ dout = NULL
    /\ dkv = NULL
    /\ dlist = NULL

Init ==
    /\ ProgInit
    /\ HandlerIdle
    /\ CloseIdle
    /\ dlines = <<>>
    /\ dtag = <<>>
    /\ NoDecode

Watcher ==
    \/ WDial \/ WGreet \/ WSleep \/ WTick \/ WWrite \/ WRead
    \/ WStatusFail \/ WStatusOk \/ WDecode \/ WSongCheck \/ WSongRet \/ WLock \/ WStore \/ WUnlock

Next ==
    \/ Watcher
    \/ Break
    \/ \E r \in Readers : Read(r)

Spec == Init /\ [][Next]_vars

\* The polling loop with a tick counter that stops counting at MaxPolls:
\* the ticker itself never runs out of ticks.
WTickWrap == pollNo = MaxPolls /\ WTickTo(MaxPolls)

\* The readers take no part in what the Watcher does next.
LiveNext == Watcher \/ WTickWrap \/ Break

\* The goroutine running WatchStatus is scheduled again and again, and each
\* of its calls returns.
LiveSpec == Init /\ [][LiveNext]_vars /\ WF_vars(Watcher \/ WTickWrap)

\* The Watcher and one task of the handler.
SlotTasks == {1}

SlotNext ==
    \/ Watcher
    \/ Break
    \/ \E t \in SlotTasks : Handler(t)

SlotSpec == Init /\ [][SlotNext]_vars

\* The tasks of the handler on their shared client.
HandlerNext == \E t \in Tasks : Handler(t)

HandlerSpec == Init /\ [][HandlerNext]_vars

\* A caller opening and closing its own Client.
CloseNext == UNew \/ UClose

CloseSpec == Init /\ [][CloseNext]_vars

(***************************************************************************)
(* Properties of the Watcher and the slot.                                 *)
(***************************************************************************)
StatusFailed == wpc = "status_ret" /\ ret.err # NULL

\* C1: once CurrentStatus holds a Status it is never nil again, a tick whose
\* status query fails leaves it as it was, and outside the three steps of a
\* publish it holds the Status of the most recent successful Client.Status.
C1_SlotKeepsLastGood ==
    /\ [](wpc \notin {"lock", "store"} => CurrentStatus = lastGood)
    /\ [][CurrentStatus # NULL => CurrentStatus' # NULL]_vars
    /\ [][StatusFailed => CurrentStatus' = CurrentStatus]_vars

\* The third tick failed and the Watcher is reconnecting with the Status of
\* the second tick still in the slot.
C1_Witness ==
    /\ wpc \in {"connect", "greet"}
    /\ pollNo = 3
    /\ CurrentStatus # NULL
    /\ CurrentStatus.poll = 2

\* C2: every connection attempt but the first is preceded by a wait of the
\* retry delay, after a failed connect and after a failed poll alike.
C2_DelayBeforeEveryRetry == wpc = "connect" => (first \/ waited)

\* C3: the Watcher retries forever: after a failure it attempts another
\* connection, and if from some point on nothing fails any more the slot
\* is written again and again.
NoFailure == wpc # "sleep" /\ ~StatusFailed

C3_RetriesForever ==
    /\ (wpc = "sleep") ~> (wpc = "connect" /\ waited)
    /\ (wpc = "connect") ~> (wpc \in {"greet", "sleep"})
    /\ <>[]NoFailure => []<>(wpc = "unlock")

\* A publish on a connection that is younger than the poll count: polls
\* were made on an earlier connection, which failed and was replaced.
C3_Witness ==
    /\ wpc = "unlock"
    /\ callNo < pollNo
    /\ CurrentStatus.poll = pollNo

(***************************************************************************)
(* Properties of sendCommand.  They are read off where a call has just     *)
(* returned: ret is its result and consumed the lines it took from the     *)
(* stream.                                                                 *)
(***************************************************************************)
Returned == wpc \in {"status_ret", "song_ret"}
ByOk == Returned /\ ret.err = NULL
ByAck == Returned /\ ret.err # NULL /\ ret.err.kind = "failed"

Text(i) == TrimSpace(consumed[i].text)
IsOkLine(i) == Text(i) = OkToken
IsAckLine(i) == HasPrefix(Text(i), AckPrefix)
Terminators == {i \in 1..Len(consumed) : IsOkLine(i) \/ IsAckLine(i)}

\* C4: a call that an OK or ACK line ended has consumed the lines of the
\* reply to its own command, all of them and in order, and has left no line
\* of that reply, nor of an earlier one, in the stream.
C4_ReplyFraming ==
    (ByOk \/ ByAck) =>
        /\ consumed # <<>>
        /\ \A i \in 1..Len(consumed) :
              consumed[i].reply = callNo /\ consumed[i].idx = i
        /\ consumed[Len(consumed)].last
        /\ \A j \in 1..Len(stream) : stream[j].reply > callNo

\* The second command on a connection, answered by the three lines of the
\* second reply.
C4_Witness ==
    /\ wpc = "song_ret"
    /\ ByOk
    /\ callNo = 2
    /\ Len(consumed) = 3

\* C5: the first terminating event decides the result: an OK line gives the
\* lines read before it, in order, and no error; an ACK line gives an error
\* and no lines, whatever was read before it; the end of the stream gives
\* the I/O error and no lines.
C5_Classification ==
    Returned =>
        IF Terminators = {}
        THEN /\ ret.err # NULL
             /\ ret.err.kind \in {"send", "read"}
             /\ ret.err.detail = IoCause
             /\ ret.lines = <<>>
        ELSE LET n == Len(consumed)
             IN /\ Terminators = {n}
                /\ IF IsOkLine(n)
                   THEN /\ ret.err = NULL
                        /\ ret.lines = [i \in 1..(n - 1) |-> Text(i)]
                   ELSE /\ ret.err # NULL
                        /\ ret.err.kind = "failed"
                        /\ ret.lines = <<>>

\* The status query ended in an ACK line that followed a key: value line.
C5_Witness ==
    /\ wpc = "status_ret"
    /\ ByAck
    /\ Len(consumed) = 2
    /\ ret.lines = <<>>

\* C6 as stated: the detail of the error is the text after "ACK " in the
\* line that ended the reply.
AckLine == Text(Len(consumed))
AfterMarker(line) == SubSeq(line, Len(AckPrefix) + 2, Len(line))

C6_DetailIsTextAfterAck == ByAck => ret.err.detail = AfterMarker(AckLine)

\* C6 as amended: the error names the command and carries the whole ACK
\* line, marker included, with the surrounding white space removed.
C6_DetailIsAckLine ==
    ByAck => /\ ret.err.detail = AckLine
             /\ ret.err.command = cmd
             /\ HasPrefix(ret.err.detail, AckPrefix)

\* The song query ended in an ACK line.
C6_Witness == wpc = "song_ret" /\ ByAck /\ ret.err.command = "currentsong"

(***************************************************************************)
(* Properties of Client.Status as the Watcher calls it.                    *)
(***************************************************************************)
\* The value of the last line of ls that starts with key and the separator.
LastValue(ls, key) ==
    LET pre == key \o Sep
        hits == {i \in 1..Len(ls) : HasPrefix(ls[i], pre)}
    IN IF hits = {} THEN <<>>
       ELSE LET i == CHOOSE h \in hits : \A g \in hits : g <= h
            IN SubSeq(ls[i], Len(pre) + 1, Len(ls[i]))

NoMetadata(s) == s.Artist = <<>> /\ s.Album = <<>> /\ s.Title = <<>>

SongFailed == wpc = "song_ret" /\ ret.err # NULL

\* C7: a failed song query is not passed on: Status returns the Status
\* decoded from the status reply with empty metadata, the Watcher keeps its
\* connection, publishes that Status and goes on to wait for the next tick.
C7_SongFailureDegrades ==
    /\ [][(SongFailed /\ wpc' # wpc) =>
            /\ wpc' = "lock"
            /\ conn' = "open"
            /\ wstatus' = [poll |-> pollNo, s |-> decodeStatus(parseKVP(lines))]
            /\ NoMetadata(wstatus'.s)
            /\ lastGood' = wstatus']_vars
    /\ [][(wpc = "store" /\ wpc' # wpc) =>
            CurrentStatus' = wstatus /\ conn' = "open"]_vars
    /\ [][(wpc = "unlock" /\ wpc' # wpc) => wpc' = "tick" /\ conn' = "open"]_vars

\* A Status of a playing or paused player without metadata is in the slot
\* and the Watcher, its connection open, is about to wait for the next tick.
C7_Witness ==
    /\ wpc = "unlock"
    /\ conn = "open"
    /\ WantsSong(CurrentStatus.s)
    /\ NoMetadata(CurrentStatus.s)

\* C8: Status sends currentsong, after status, exactly when the state of the
\* status reply is "play" or "pause"; otherwise it sends nothing more and the
\* metadata is empty; the metadata of a successful song reply is the values
\* of its Artist, Album and Title lines.
C8_SongQueryIffPlaying ==
    /\ [][(wpc = "decoded" /\ wpc' # wpc) =>
            IF LastValue(lines, kState) \in {sPlay, sPause}
            THEN wpc' = "song_w" /\ cmd' = "currentsong"
            ELSE /\ wpc' = "lock"
                 /\ NoMetadata(wstatus'.s)
                 /\ callNo' = callNo]_vars
    /\ [][callNo' = callNo + 1 =>
            /\ wpc \in {"status_w", "song_w"}
            /\ cmd = (IF wpc = "song_w" THEN "currentsong" ELSE "status")
            /\ wpc = "song_w" =>
                  LastValue(lines, kState) \in {sPlay, sPause}]_vars
    /\ [][(wpc = "song_ret" /\ ret.err = NULL /\ wpc' # wpc) =>
            /\ wstatus'.s.Artist = LastValue(ret.lines, kArtist)
            /\ wstatus'.s.Album = LastValue(ret.lines, kAlbum)
            /\ wstatus'.s.Title = LastValue(ret.lines, kTitle)]_vars

\* Status is about to return a playing Status with the Artist and Title of
\* the song reply.
C8_Witness ==
    /\ wpc = "lock"
    /\ wstatus.s.State = sPlay
    /\ wstatus.s.Artist = <<"X">>
    /\ wstatus.s.Title = <<"Y">>
    /\ wstatus.s.Album = <<>>

(***************************************************************************)
(* The decoding on its own, over all short replies built from a few keys   *)
(* and a few values.                                                       *)
(***************************************************************************)
DecodeKeys == {kState, kVolume, kSong, kSongID, kDuration, kElapsed}
DecodeValues == {<<"7">>, <<"x">>, <<"3", ".", "7">>}
\* A line with no separator and a line with two.
DecodeStray == {<<"x">>, kState \o Sep \o <<"a">> \o Sep \o <<"b">>}
DecodeLines ==
    {k \o Sep \o v : k \in DecodeKeys, v \in DecodeValues} \cup DecodeStray
DecodeInputs == UNION {[1..n -> DecodeLines] : n \in 0..MaxLines}

DecodeInit ==
    /\ ProgInit
    /\ HandlerIdle
    /\ CloseIdle
    /\ dlines \in DecodeInputs
    /\ dtag = <<>>
    /\ NoDecode

DecodeNext == Decode

DecodeSpec == DecodeInit /\ [][DecodeNext]_vars

IntFields ==
    {[name |-> "Volume", key |-> kVolume, default |-> -1],
     [name |-> "PlaylistLength", key |-> kPlaylistLength, default |-> 0],
     [name |-> "Song", key |-> kSong, default |-> 0],
     [name |-> "SongID", key |-> kSongID, default |-> -1],
     [name |-> "NextSong", key |-> kNextSong, default |-> 0],
     [name |-> "NextSongID", key |-> kNextSongID, default |-> -1],
     [name |-> "Bitrate", key |-> kBitrate, default |-> 0]}

\* C9: a field whose key is absent or whose value does not parse holds its
\* documented default, and every other field is decoded from its own key.
C9_PermissivePerField ==
    dout # NULL =>
        LET m == parseKVP(dlines)
        IN /\ \A f \in IntFields :
                dout[f.name] = IF f.key \in DOMAIN m /\ Atoi(m[f.key]).ok
                               THEN Atoi(m[f.key]).val
                               ELSE f.default
           /\ dout.Duration = IF kDuration \in DOMAIN m /\ ParseFloat(m[kDuration]).ok
                              THEN FloatToInt(ParseFloat(m[kDuration]).val)
                              ELSE 0
           /\ dout.Elapsed = IF kElapsed \in DOMAIN m /\ ParseFloat(m[kElapsed]).ok
                             THEN ParseFloat(m[kElapsed]).val
                             ELSE FloatZero
           /\ dout.State = Get(m, kState)

(***************************************************************************)
(* Properties of the readers.                                              *)
(***************************************************************************)
\* C10: what a reader sees never gets older: once it has read the Status of
\* poll n, its next read gives neither nil nor the Status of an earlier
\* poll; and the slot itself never goes back in the order of polls.
C10_ReadsNeverGoBack ==
    /\ [][\A r \in Readers : seen[r] > 0 => seen'[r] >= seen[r]]_vars
    /\ [][Recency(CurrentStatus') >= Recency(CurrentStatus)]_vars

\* Two readers hold the Status of two different polls and the slot is ahead
\* of both.
C10_Witness ==
    /\ seen[1] = 2
    /\ seen[2] = 1
    /\ Recency(CurrentStatus) = 3

(***************************************************************************)
(* Properties of NewClient and of the Watcher's connection.                *)
(***************************************************************************)
GoodGreeting == stream # <<>> /\ HasPrefix(Head(stream).text, Sentinel)

\* C13: NewClient returns a client only if the first line read starts with
\* OK MPD; when the dial fails it has opened nothing, and when the read of
\* the first line fails or the line is another one it closes the socket it
\* had opened before it returns the error.
C13_ConnectAllOrNothing ==
    /\ [][(wpc = "connect" /\ wpc' = "sleep") =>
            /\ wsocks' = wsocks
            /\ conn' = conn]_vars
    /\ [][(wpc = "greet" /\ wpc' # wpc) =>
            IF GoodGreeting
            THEN wpc' = "tick" /\ conn' = "open" /\ wsocks' = wsocks
            ELSE wpc' = "sleep" /\ conn' = "closed" /\ wsocks' = wsocks - 1]_vars
    /\ [](wpc = "sleep" => (conn # "open" /\ wsocks = 0))

\* NewClient has failed after its dial had succeeded, and the socket is
\* closed.
C13_Witness ==
    /\ wpc = "sleep"
    /\ conn = "closed"
    /\ wsocks = 0
    /\ pollNo = 0

\* C17: a status query that ended in an ACK line or an I/O failure gives no
\* Status and nothing is published for its tick, whatever lines were read
\* before the failure; a Status is decoded only from a reply that OK ended.
C17_StatusAllOrNothing ==
    /\ [][(StatusFailed /\ wpc' # wpc) =>
            /\ wpc' = "connect"
            /\ wstatus' = NULL
            /\ lastGood' = lastGood
            /\ CurrentStatus' = CurrentStatus]_vars
    /\ [][(wstatus = NULL /\ wstatus' # NULL) => wpc = "parsed"]_vars
    /\ [][(wpc # "parsed" /\ wpc' = "parsed") =>
            /\ ret.err = NULL
            /\ consumed # <<>>
            /\ IsOkLine(Len(consumed))]_vars
    /\ [](StatusFailed => (wstatus = NULL /\ Recency(CurrentStatus) < pollNo))
    /\ []((wpc \in {"connect", "greet", "sleep"} /\ pollNo > 0) =>
            Recency(CurrentStatus) < pollNo)

\* A status query has failed on an ACK line that came after a key: value
\* line.
C17_Witness ==
    /\ StatusFailed
    /\ ret.err.kind = "failed"
    /\ Len(consumed) = 2
    /\ Index(Text(1), Sep) > 0

\* C18: the Watcher holds statusMutex only for its write of the slot: while
\* it holds the lock it is not connecting, writing a command, reading a
\* reply or waiting for a tick or a delay.
C18_LockOnlyForWrite ==
    statusMutex = "watcher" => wpc \in {"store", "unlock"}

\* The Watcher holds the lock, about to write the slot.
C18_Witness ==
    /\ statusMutex = "watcher"
    /\ wpc = "store"

\* C19: the Watcher has at most one socket open at any time, and none, its
\* client closed, whenever it is about to connect.
C19_OneConnection ==
    /\ wsocks <= 1
    /\ wpc = "connect" => (wsocks = 0 /\ conn # "open")

\* The second and the third poll have both failed and the Watcher is about
\* to connect for the third time, its last client closed.
C19_Witness ==
    /\ wpc = "connect"
    /\ conn = "closed"
    /\ wsocks = 0
    /\ pollNo = 3
    /\ Recency(CurrentStatus) = 1

(***************************************************************************)
(* Properties of the remote-control handler's use of the slot.             *)
(***************************************************************************)
\* A task is between its load of the pointer CurrentStatus and its read of
\* the Status behind it.
InRead(t) == hpc[t] = "deref"

\* C11: no read of the slot overlaps a write of it: while the Watcher holds
\* statusMutex for its write, no task is inside a read of the slot.
C11_NoReadOverlapsWrite ==
    \A t \in Tasks : InRead(t) => statusMutex # "watcher"

\* C12: a play/pause event handled while the slot is still nil completes:
\* the handler never ends in a nil pointer dereference.
C12_AbsentSlotIsHandled ==
    \A t \in Tasks : hpc[t] # "panic_nil"

(***************************************************************************)
(* Client.Close, called any number of times.                               *)
(***************************************************************************)
\* C14: every Close, the first one and any later one, on a Client never
\* opened or already closed, returns no error and leaves no socket open.
C14_CloseIdempotent ==
    \A i \in DOMAIN ulog :
        ulog[i].op = "close" => (ulog[i].err = NULL /\ ulog[i].conn # "open")

(***************************************************************************)
(* parseKVP on its own.                                                    *)
(***************************************************************************)
HasSep(l) == Index(l, Sep) > 0
KeyOf(l) == SubSeq(l, 1, Index(l, Sep) - 1)
ValueOf(l) == SubSeq(l, Index(l, Sep) + Len(Sep), Len(l))

\* C15: the map has exactly the keys of the lines that contain ": ", each
\* line split at its first ": "; a line without it adds nothing; and the
\* value of a key is the value of the last line that carries the key.
C15_LastEntryPerKey ==
    dout # NULL =>
        LET with == {i \in 1..Len(dlines) : HasSep(dlines[i])}
            LastOf(k) == CHOOSE i \in with :
                            /\ KeyOf(dlines[i]) = k
                            /\ \A j \in with : KeyOf(dlines[j]) = k => j <= i
        IN /\ DOMAIN dkv = {KeyOf(dlines[i]) : i \in with}
           /\ \A k \in DOMAIN dkv : dkv[k] = ValueOf(dlines[LastOf(k)])

\* Two lines with the key volume were parsed, and the map holds the value
\* of the second.
C15_Witness ==
    /\ dout # NULL
    /\ Len(dlines) = 2
    /\ dlines[1] = kVolume \o Sep \o <<"7">>
    /\ dlines[2] = kVolume \o Sep \o <<"x">>
    /\ dkv[kVolume] = <<"x">>

(***************************************************************************)
(* Client.List on its own, over short replies and tags in either case.     *)
(***************************************************************************)
tGenre == <<"g", "e", "n", "r", "e">>
tGenreCap == <<"G", "e", "n", "r", "e">>

ListTags == {tGenre, tGenreCap}
ListLines ==
    {<<"g", "e", "n", "r", "e", ":", " ", "R", "o", "c", "k">>,
     <<"G", "e", "n", "r", "e", ":", " ", "J", "a", "z", "z">>,
     <<"G", "E", "N", "R", "E", ":", " ", "P", "o", "p">>,
     <<"A", "r", "t", "i", "s", "t", ":", " ", "X">>,
     <<"g", "e", "n", "r", "e">>}
ListInputs == UNION {[1..n -> ListLines] : n \in 0..MaxLines}

ListInit ==
    /\ ProgInit
    /\ HandlerIdle
    /\ CloseIdle
    /\ dlines \in ListInputs
    /\ dtag \in ListTags
    /\ NoDecode

ListNext == DecodeList

ListSpec == ListInit /\ [][ListNext]_vars

\* The key of the line l is the tag, letter case aside.
Carries(l, tag) ==
    /\ Len(l) >= Len(tag) + Len(Sep)
    /\ ToLower(SubSeq(l, 1, Len(tag))) = ToLower(tag)
    /\ SubSeq(l, Len(tag) + 1, Len(tag) + Len(Sep)) = Sep

RECURSIVE ValuesOf(_, _)
ValuesOf(ls, tag) ==
    IF ls = <<>> THEN <<>>
    ELSE IF Carries(Head(ls), tag)
         THEN <<SubSeq(Head(ls), Len(tag) + Len(Sep) + 1, Len(Head(ls)))>>
              \o ValuesOf(Tail(ls), tag)
         ELSE ValuesOf(Tail(ls), tag)

\* C16: List returns, in the order of the reply, the text after tag + ": "
\* of exactly the lines whose key is the tag, whatever the letter case of
\* the tag and of the key.
C16_ListCaseInsensitive ==
    dlist # NULL => dlist.values = ValuesOf(dlines, dtag)

(***************************************************************************)
(* Properties of the commands of the handler's tasks on their shared       *)
(* client.                                                                 *)
(***************************************************************************)
\* C20: every task reads lines of the reply to its own command only, and
\* when its call has returned it has read that reply to its last line.
C20_OwnReplyOnly ==
    \A t \in Tasks :
        /\ \A i \in DOMAIN hcons[t] : hcons[t][i].reply = hmine[t]
        /\ (hpc[t] = "idle" /\ hmine[t] > 0) =>
              (hcons[t] # <<>> /\ hcons[t][Len(hcons[t])].last)

====
